---- MODULE Spec2Model ----
(***************************************************************************)
(* A model of clinker/align.py: the Globaligner alignment store, the       *)
(* identity/similarity calculator, homology grouping, the synteny scorer,  *)
(* the score matrix and the serialisation of the object graph.             *)
(*                                                                         *)
(* Numbers: identities, similarities, weights and scores are held in       *)
(* hundredths (1.0 is 100); every value the model produces is a multiple   *)
(* of 0.25, so the hundredths are exact.                                   *)
(***************************************************************************)
EXTENDS Integers, Sequences, FiniteSets, TLC

VARIABLES
    clusters,            \* Globaligner.clusters: OrderedDict, its keys in insertion order
    genes,               \* Globaligner._genes: gene uid -> Gene instance
    loci,                \* Globaligner._loci: locus uid -> Locus instance
    alignments,          \* Globaligner.alignments: list of Alignment
    alignment_indices,   \* Globaligner._alignment_indices: <<key, key>> -> value
    cluster_names,       \* Globaligner._cluster_names: key -> <<uid, uid>>
    alignment_id_iter,   \* Alignment.id_iter: next value of the class counter
    link_id_iter,        \* Link.id_iter: next value of the class counter
    group,               \* Gene._group of every Gene object
    arg,                 \* the argument of the call in progress (pure functions)
    ret,                 \* the value returned (or exception raised) by the last call
    added                \* history: unordered cluster pair -> uid of the Alignment
                         \* most recently passed to add_alignment

vars == <<clusters, genes, loci, alignments, alignment_indices, cluster_names,
          alignment_id_iter, link_id_iter, group, arg, ret, added>>

(***************************************************************************)
(* Bounds of the model.                                                    *)
(***************************************************************************)
MaxAlignmentIds == 3     \* Alignment objects constructed in one behaviour
MaxColumns == 4          \* columns of a gapped alignment given to compute_identity
MaxLinks == 3            \* links given to assign_groups

(***************************************************************************)
(* Python values.                                                          *)
(***************************************************************************)
None == [tag |-> "NoneType"]
PyInt(n) == [tag |-> "int", val |-> n]
AlignmentRef(uid) == [tag |-> "Alignment", uid |-> uid]

\* bool(value): None and 0 are false, an Alignment instance is true
Truthy(v) == IF v.tag = "int" THEN v.val # 0 ELSE v.tag # "NoneType"

Digits == <<"0", "1", "2", "3", "4", "5", "6", "7", "8", "9">>

RECURSIVE str(_)
str(n) == IF n < 10 THEN Digits[n + 1] ELSE str(n \div 10) \o Digits[(n % 10) + 1]

InSeq(x, s) == \E k \in 1..Len(s) : s[k] = x

Range(s) == {s[k] : k \in 1..Len(s)}

RECURSIVE SumSeq(_)
SumSeq(s) == IF Len(s) = 0 THEN 0 ELSE Head(s) + SumSeq(Tail(s))

Min(a, b) == IF a <= b THEN a ELSE b

(***************************************************************************)
(* The clusters, loci and genes handed to the store.  They are built by    *)
(* the caller; the store only indexes them.                                *)
(***************************************************************************)
ClusterUids == {"c1", "c2", "c3", "c4"}
GeneUids == {"A", "B", "C", "D", "E"}

ClusterLoci(c) ==
    CASE c = "c1" -> <<"l1">>
      [] c = "c2" -> <<"l2">>
      [] c = "c5" -> <<"l5">>
      [] OTHER -> <<>>

LocusGenes(l) ==
    CASE l = "l1" -> <<"A", "B">>
      [] l = "l2" -> <<"C", "D">>
      [] l = "l5" -> <<"E">>
      [] OTHER -> <<>>

ClusterName(c) ==
    CASE c = "c1" -> "alpha"
      [] c = "c2" -> "beta"
      [] OTHER -> c

Translation(g) ==
    CASE g = "A" -> <<"M", "S", "T", "K">>
      [] g = "B" -> <<"M", "K", "V", "L">>
      [] g = "C" -> <<"M", "S", "T", "K">>
      [] g = "D" -> <<"M", "K", "I", "L">>
      [] g = "E" -> <<"M", "K", "V", "L">>

NoGroup == -1            \* a Gene whose _group was never assigned

(***************************************************************************)
(* compute_identity                                                        *)
(***************************************************************************)
similar_acids == <<{"G", "A", "V", "L", "I"}, {"F", "Y", "W"}, {"C", "M"},
                   {"S", "T"}, {"K", "R", "H"}, {"D", "E", "N", "Q"}, {"P"}>>

GapChars == {"-", "."}

RECURSIVE compute_identity_loop(_, _, _, _, _, _)
compute_identity_loop(one, two, i, length, matches, similar) ==
    IF i > Len(one)
    THEN [length |-> length, matches |-> matches, similar |-> similar]
    ELSE IF one[i] = two[i]
         THEN IF one[i] \notin GapChars
              THEN compute_identity_loop(one, two, i + 1, length, matches + 1, similar)
              ELSE compute_identity_loop(one, two, i + 1, length - 1, matches, similar)
         ELSE IF \E k \in 1..Len(similar_acids) :
                     one[i] \in similar_acids[k] /\ two[i] \in similar_acids[k]
              THEN compute_identity_loop(one, two, i + 1, length, matches, similar + 1)
              ELSE compute_identity_loop(one, two, i + 1, length, matches, similar)

\* identity is matches / length and similarity is (matches + similar) / length;
\* the result keeps numerators and denominator
compute_identity(one, two) ==
    LET c == compute_identity_loop(one, two, 1, Len(one), 0, 0)
    IN  IF c.length = 0
        THEN [status |-> "ZeroDivisionError"]
        ELSE [status |-> "ok", matches |-> c.matches, similar |-> c.similar,
              length |-> c.length]

\* a quotient n / d in hundredths
Hundredths(n, d) == (100 * n) \div d

(***************************************************************************)
(* assign_groups, get_pairs, compare_pairs                                 *)
(***************************************************************************)
DefaultThreshold == 30

\* One pass of the body of "for link in links".  The inner "for (i, group)"
\* loop ends with an unconditional break, so only groups[0] is examined.
assign_groups_link(link, groups, grp, threshold) ==
    IF link.identity < threshold
    THEN [groups |-> groups, group |-> grp]
    ELSE LET found == /\ Len(groups) > 0
                      /\ (InSeq(link.query, groups[1]) \/ InSeq(link.target, groups[1]))
         IN  IF found
             THEN LET addq == ~InSeq(link.query, groups[1])
                      g1 == IF addq THEN Append(groups[1], link.query) ELSE groups[1]
                      addt == ~InSeq(link.target, g1)
                      g2 == IF addt THEN Append(g1, link.target) ELSE g1
                  IN  [groups |-> [groups EXCEPT ![1] = g2],
                       group |-> [x \in DOMAIN grp |->
                                    IF (addq /\ x = link.query) \/ (addt /\ x = link.target)
                                    THEN 0 ELSE grp[x]]]
             ELSE [groups |-> Append(groups, <<link.query, link.target>>),
                   group |-> [x \in DOMAIN grp |->
                                IF x = link.query \/ x = link.target
                                THEN Len(groups) ELSE grp[x]]]

RECURSIVE assign_groups_loop(_, _, _, _, _)
assign_groups_loop(links, k, groups, grp, threshold) ==
    IF k > Len(links)
    THEN [groups |-> groups, group |-> grp]
    ELSE LET r == assign_groups_link(links[k], groups, grp, threshold)
         IN  assign_groups_loop(links, k + 1, r.groups, r.group, threshold)

\* returns the local list of groups and the Gene._group fields after the call
assign_groups(links, grp, threshold) == assign_groups_loop(links, 1, <<>>, grp, threshold)

\* get_pairs appends one generator object per window of two genes.  A
\* generator is an object of its own: it holds the slice of genes it would
\* read and compares (and hashes) by identity, which "gen" stands for.  "base"
\* is the number of generator objects created before this call.
RECURSIVE get_pairs_loop(_, _, _)
get_pairs_loop(locusList, k, pairs) ==
    IF k > Len(locusList)
    THEN pairs
    ELSE LET gs == LocusGenes(locusList[k])
             total == Len(gs) - 1
             new == [i \in 1..(IF total > 0 THEN total ELSE 0) |->
                        [gen |-> 0, genes |-> <<gs[i], gs[i + 1]>>]]
         IN  get_pairs_loop(locusList, k + 1, pairs \o new)

get_pairs(cluster, base) ==
    LET ps == get_pairs_loop(ClusterLoci(cluster), 1, <<>>)
    IN  [i \in 1..Len(ps) |-> [ps[i] EXCEPT !.gen = base + i]]

Count(s, x) == Cardinality({k \in 1..Len(s) : s[k] = x})

RECURSIVE SumOver(_, _, _)
SumOver(S, one, two) ==
    IF S = {} THEN 0
    ELSE LET pair == CHOOSE p \in S : TRUE
         IN  Min(Count(one, pair), Count(two, pair)) + SumOver(S \ {pair}, one, two)

compare_pairs(one, two) == SumOver(Range(one) \cap Range(two), one, two)

(***************************************************************************)
(* Python containers.                                                      *)
(***************************************************************************)
EmptyDict == << >>

Put(f, k, v) == [x \in (DOMAIN f) \cup {k} |-> IF x = k THEN v ELSE f[x]]

\* dict.get(k): None when the key is absent
Get(f, k) == IF k \in DOMAIN f THEN f[k] ELSE None

\* list[key] = value: only an int subscript inside the list is accepted
ListSetItem(list, keyType, key, value) ==
    IF keyType # "int"
    THEN [status |-> "TypeError"]
    ELSE IF key < 0 \/ key >= Len(list)
         THEN [status |-> "IndexError"]
         ELSE [status |-> "ok", list |-> [list EXCEPT ![key + 1] = value]]

\* itertools.product(a, b) as a sequence
Product(a, b) ==
    [k \in 1..(Len(a) * Len(b)) |->
        <<a[((k - 1) \div Len(b)) + 1], b[((k - 1) % Len(b)) + 1]>>]

\* itertools.combinations(s, 2) as a sequence
RECURSIVE Combinations(_)
Combinations(s) ==
    IF Len(s) < 2 THEN <<>>
    ELSE [k \in 1..(Len(s) - 1) |-> <<s[1], s[k + 1]>>] \o Combinations(Tail(s))

(***************************************************************************)
(* The Globaligner store as one value.                                     *)
(***************************************************************************)
Globaligner ==
    [clusters |-> <<>>, genes |-> EmptyDict, loci |-> EmptyDict,
     alignments |-> <<>>, alignment_indices |-> EmptyDict,
     cluster_names |-> EmptyDict]

\* a gene uid stands for the Gene object the caller built; a restored Gene
\* is [uid, inst] with inst the number of the from_dict call that made it
RECURSIVE add_genes(_, _, _)
add_genes(gs, k, index) ==
    IF k > Len(gs) THEN index
    ELSE add_genes(gs, k + 1, Put(index, gs[k], gs[k]))

RECURSIVE add_loci(_, _, _)
add_loci(ls, k, s) ==
    IF k > Len(ls) THEN s
    ELSE add_loci(ls, k + 1,
                  [s EXCEPT !.loci = Put(s.loci, ls[k], ls[k]),
                            !.genes = add_genes(LocusGenes(ls[k]), 1, s.genes)])

\* add_clusters for one Cluster
add_cluster(s, cluster) ==
    add_loci(ClusterLoci(cluster), 1,
             [s EXCEPT !.clusters = IF InSeq(cluster, s.clusters)
                                    THEN s.clusters
                                    ELSE Append(s.clusters, cluster)])

RECURSIVE add_clusters(_, _)
add_clusters(s, cs) ==
    IF Len(cs) = 0 THEN s
    ELSE add_clusters(add_cluster(s, Head(cs)), Tail(cs))

\* self.aligner.align(a, b)[0]: the translations are of equal length, and the
\* best global alignment under gap-open -10 pairs them column by column
align(a, b) == <<a, b>>

RECURSIVE Flatten(_)
Flatten(ss) == IF Len(ss) = 0 THEN <<>> ELSE Head(ss) \o Flatten(Tail(ss))

\* the gene pairs in the order of the two nested product loops
GenePairs(one, two) ==
    LET lp == Product(ClusterLoci(one), ClusterLoci(two))
    IN  Flatten([k \in 1..Len(lp) |->
                    Product(LocusGenes(lp[k][1]), LocusGenes(lp[k][2]))])

RECURSIVE align_links(_, _, _, _, _)
align_links(pairs, k, cutoff, links, linkId) ==
    IF k > Len(pairs)
    THEN [links |-> links, link_id_iter |-> linkId]
    ELSE LET geneA == pairs[k][1]
             geneB == pairs[k][2]
             aln == align(Translation(geneA), Translation(geneB))
             c == compute_identity(aln[1], aln[2])
             identity == Hundredths(c.matches, c.length)
             similarity == Hundredths(c.matches + c.similar, c.length)
         IN  IF identity < cutoff
             THEN align_links(pairs, k + 1, cutoff, links, linkId)
             ELSE align_links(pairs, k + 1, cutoff,
                              Append(links, [uid |-> str(linkId), query |-> geneA,
                                             target |-> geneB, identity |-> identity,
                                             similarity |-> similarity]),
                              linkId + 1)

\* Globaligner.align_clusters: a new, unstored Alignment; alnId and linkId
\* are the class counters before the call
align_clusters(one, two, cutoff, alnId, linkId) ==
    LET r == align_links(GenePairs(one, two), 1, cutoff, <<>>, linkId)
    IN  [alignment |-> [uid |-> str(alnId), query |-> one, target |-> two,
                        links |-> r.links],
         alignment_id_iter |-> alnId + 1,
         link_id_iter |-> r.link_id_iter]

\* a variant that leaves the reverse index untouched
add_alignment_one_way(s, alignment) ==
    LET q == alignment.query
        t == alignment.target
        s1 == add_clusters(s, <<q, t>>)
        found == Get(s1.alignment_indices, <<q, t>>)
        index == IF Truthy(found) THEN found.val ELSE Len(s1.alignments)
    IN  [s1 EXCEPT
           !.alignments = IF Truthy(found)
                          THEN [s1.alignments EXCEPT ![index + 1] = alignment]
                          ELSE Append(s1.alignments, alignment),
           !.alignment_indices = Put(s1.alignment_indices, <<q, t>>, PyInt(index)),
           !.cluster_names = Put(s1.cluster_names, index, <<q, t>>)]

\* Globaligner.add_alignment on a store whose index values are ints
add_alignment(s, alignment) ==
    LET q == alignment.query
        t == alignment.target
        s1 == add_clusters(s, <<q, t>>)
        found == Get(s1.alignment_indices, <<q, t>>)
        index == IF Truthy(found) THEN found.val ELSE Len(s1.alignments)
    IN  [s1 EXCEPT
           !.alignments = IF Truthy(found)
                          THEN [s1.alignments EXCEPT ![index + 1] = alignment]
                          ELSE Append(s1.alignments, alignment),
           !.alignment_indices = Put(Put(s1.alignment_indices, <<q, t>>, PyInt(index)),
                                     <<t, q>>, PyInt(index)),
           !.cluster_names = Put(s1.cluster_names, index, <<q, t>>)]

\* Globaligner.get_alignment
get_alignment(s, one, two) ==
    IF <<one, two>> \notin DOMAIN s.alignment_indices
    THEN [status |-> "KeyError"]
    ELSE LET index == s.alignment_indices[<<one, two>>]
         IN  IF index.tag # "int"
             THEN [status |-> "TypeError"]
             ELSE IF index.val >= Len(s.alignments)
                  THEN [status |-> "IndexError"]
                  ELSE [status |-> "ok", alignment |-> s.alignments[index.val + 1]]

\* Globaligner.align_stored_clusters: the loop over combinations; "st" carries
\* the store, the two class counters and the history of add_alignment calls
RECURSIVE align_stored_loop(_, _, _, _)
align_stored_loop(combos, k, cutoff, st) ==
    IF k > Len(combos) THEN st
    ELSE LET one == combos[k][1]
             two == combos[k][2]
         IN  IF Truthy(Get(st.s.alignment_indices, <<ClusterName(one), ClusterName(two)>>))
             THEN align_stored_loop(combos, k + 1, cutoff, st)
             ELSE LET a == align_clusters(one, two, cutoff,
                                          st.alignment_id_iter, st.link_id_iter)
                  IN  align_stored_loop(combos, k + 1, cutoff,
                        [s |-> add_alignment(st.s, a.alignment),
                         alignment_id_iter |-> a.alignment_id_iter,
                         link_id_iter |-> a.link_id_iter,
                         added |-> Put(st.added, {one, two}, a.alignment.uid)])

align_stored_clusters(st, cutoff) ==
    align_stored_loop(Combinations(st.s.clusters), 1, cutoff, st)

(***************************************************************************)
(* Serialisation.                                                          *)
(***************************************************************************)
\* a dict whose iteration order matters: keys in insertion order
EmptyOrdered == [keys |-> <<>>, vals |-> EmptyDict]

OPut(od, k, v) ==
    [keys |-> IF k \in DOMAIN od.vals THEN od.keys ELSE Append(od.keys, k),
     vals |-> Put(od.vals, k, v)]

\* Cluster.to_dict(uids_only=True), Locus.to_dict(uids_only=True), Gene.to_dict()
ClusterToDict(c) == [uid |-> c, name |-> ClusterName(c), loci |-> ClusterLoci(c)]

LocusToDict(l) == [uid |-> l, genes |-> LocusGenes(l)]

GeneToDict(g) == [uid |-> g, translation |-> Translation(g)]

\* Alignment.to_dict(uids_only=True)
AlignmentToDict(a) ==
    [uid |-> a.uid, query |-> a.query, target |-> a.target,
     links |-> [k \in 1..Len(a.links) |-> a.links[k].uid]]

\* Link.to_dict(uids_only=True): the payload has no "uid" key
LinkToDict(l) ==
    [query |-> l.query, target |-> l.target,
     identity |-> l.identity, similarity |-> l.similarity]

RECURSIVE to_dict_links(_, _, _)
to_dict_links(ls, k, serialLinks) ==
    IF k > Len(ls) THEN serialLinks
    ELSE to_dict_links(ls, k + 1, Put(serialLinks, ls[k].uid, LinkToDict(ls[k])))

RECURSIVE to_dict_alignments(_, _, _)
to_dict_alignments(as, k, serial) ==
    IF k > Len(as) THEN serial
    ELSE to_dict_alignments(as, k + 1,
           [serial EXCEPT
              !.alignments = OPut(serial.alignments, as[k].uid, AlignmentToDict(as[k])),
              !.links = to_dict_links(as[k].links, 1, serial.links)])

\* Globaligner.to_dict
to_dict(s) ==
    LET ls == Flatten([k \in 1..Len(s.clusters) |-> ClusterLoci(s.clusters[k])])
        gs == Flatten([k \in 1..Len(ls) |-> LocusGenes(ls[k])])
    IN  to_dict_alignments(s.alignments, 1,
          [order |-> s.clusters,
           clusters |-> [c \in Range(s.clusters) |-> ClusterToDict(c)],
           loci |-> [l \in Range(ls) |-> LocusToDict(l)],
           genes |-> [g \in Range(gs) |-> GeneToDict(g)],
           alignments |-> EmptyOrdered,
           links |-> EmptyDict])

\* Cluster.from_dict, Locus.from_dict, Gene.from_dict on a uids-only payload:
\* a new instance whose children are still bare uids
ClusterFromDict(d, inst) == [uid |-> d.uid, name |-> d.name, loci |-> d.loci, inst |-> inst]

LocusFromDict(d, inst) == [uid |-> d.uid, genes |-> d.genes, inst |-> inst]

GeneFromDict(d, inst) == [uid |-> d.uid, inst |-> inst]

\* Alignment.from_dict: the payload's "uid" is not passed on, so __init__
\* draws a new one from Alignment.id_iter
AlignmentFromDict(d, alnId) ==
    [uid |-> str(alnId), query |-> d.query, target |-> d.target, links |-> d.links]

\* Link.from_dict: cls(**d) with no "uid" in d draws a new one from Link.id_iter
LinkFromDict(d, linkId) ==
    [uid |-> str(linkId), query |-> d.query, target |-> d.target,
     identity |-> d.identity, similarity |-> d.similarity]

\* "w" carries the store being built and the number of instances made so far
RECURSIVE from_dict_genes(_, _, _, _)
from_dict_genes(d, locus, gene_idx, w) ==
    IF gene_idx > Len(locus.genes) THEN [locus |-> locus, w |-> w]
    ELSE LET gene_uid == locus.genes[gene_idx]
             gene == GeneFromDict(d.genes[gene_uid], w.inst + 1)
         IN  from_dict_genes(d, [locus EXCEPT !.genes[gene_idx] = gene], gene_idx + 1,
                             [w EXCEPT !.inst = w.inst + 1,
                                       !.ga.genes = Put(w.ga.genes, gene_uid, gene)])

RECURSIVE from_dict_loci(_, _, _, _)
from_dict_loci(d, cluster, locus_idx, w) ==
    IF locus_idx > Len(cluster.loci) THEN [status |-> "ok", cluster |-> cluster, w |-> w]
    ELSE LET locus_uid == cluster.loci[locus_idx]
             r == from_dict_genes(d, LocusFromDict(d.loci[locus_uid], w.inst + 1), 1,
                                  [w EXCEPT !.inst = w.inst + 1])
             \* cluster.loci[locus_uid] = locus: the subscript is the uid, a str
             set == ListSetItem(cluster.loci, "str", locus_uid, r.locus)
         IN  IF set.status # "ok"
             THEN [status |-> set.status]
             ELSE from_dict_loci(d, [cluster EXCEPT !.loci = set.list], locus_idx + 1,
                                 [r.w EXCEPT !.ga.loci = Put(r.w.ga.loci, locus_uid, r.locus)])

RECURSIVE from_dict_clusters(_, _, _)
from_dict_clusters(d, k, w) ==
    IF k > Len(d.order) THEN [status |-> "ok", w |-> w]
    ELSE LET cluster_uid == d.order[k]
             r == from_dict_loci(d, ClusterFromDict(d.clusters[cluster_uid], w.inst + 1), 1,
                                 [w EXCEPT !.inst = w.inst + 1])
         IN  IF r.status # "ok"
             THEN [status |-> r.status]
             ELSE from_dict_clusters(d, k + 1,
                    [r.w EXCEPT !.ga.clusters = OPut(r.w.ga.clusters, cluster_uid, r.cluster)])

RECURSIVE from_dict_links(_, _, _, _, _)
from_dict_links(d, ga, aln, idx, linkId) ==
    IF idx > Len(aln.links) THEN [aln |-> aln, link_id_iter |-> linkId]
    ELSE LET l == LinkFromDict(d.links[aln.links[idx]], linkId)
             link == [l EXCEPT !.query = ga.genes[l.query], !.target = ga.genes[l.target]]
         IN  from_dict_links(d, ga, [aln EXCEPT !.links[idx] = link], idx + 1, linkId + 1)

RECURSIVE from_dict_alignments(_, _, _)
from_dict_alignments(d, k, st) ==
    IF k > Len(d.alignments.keys) THEN st
    ELSE LET a0 == AlignmentFromDict(d.alignments.vals[d.alignments.keys[k]],
                                     st.alignment_id_iter)
             a1 == [a0 EXCEPT !.query = st.ga.clusters.vals[a0.query],
                              !.target = st.ga.clusters.vals[a0.target]]
             r == from_dict_links(d, st.ga, a1, 1, st.link_id_iter)
             aln == r.aln
             q == aln.query.uid
             t == aln.target.uid
         IN  from_dict_alignments(d, k + 1,
               [ga |-> [st.ga EXCEPT
                          !.alignments = Append(st.ga.alignments, aln),
                          !.alignment_indices =
                              Put(Put(st.ga.alignment_indices, <<q, t>>, AlignmentRef(aln.uid)),
                                  <<t, q>>, AlignmentRef(aln.uid)),
                          !.cluster_names = Put(st.ga.cluster_names, aln.uid, <<q, t>>)],
                alignment_id_iter |-> st.alignment_id_iter + 1,
                link_id_iter |-> r.link_id_iter])

\* Globaligner.from_dict; alnId and linkId are the class counters before the call
from_dict(d, alnId, linkId) ==
    LET c == from_dict_clusters(d, 1,
                 [ga |-> [Globaligner EXCEPT !.clusters = EmptyOrdered], inst |-> 0])
    IN  IF c.status # "ok"
        THEN [status |-> c.status, alignment_id_iter |-> alnId, link_id_iter |-> linkId]
        ELSE [status |-> "ok"] @@
             from_dict_alignments(d, 1, [ga |-> c.w.ga, alignment_id_iter |-> alnId,
                                         link_id_iter |-> linkId])

(***************************************************************************)
(* Synteny and the score matrix.                                           *)
(***************************************************************************)
\* a variant whose pairs are tuples of the group indices read from the genes
synteny_reading_groups(s, grp, one, two, i) ==
    LET a == get_alignment(s, one, two)
    IN  IF a.status # "ok"
        THEN [status |-> a.status, group |-> grp]
        ELSE LET links == a.alignment.links
                 homology == SumSeq([k \in 1..Len(links) |-> links[k].identity])
                 g == assign_groups(links, grp, DefaultThreshold)
                 gens1 == get_pairs(one, 0)
                 gens2 == get_pairs(two, Len(gens1))
                 one_pairs == [k \in 1..Len(gens1) |->
                                 <<g.group[gens1[k].genes[1]], g.group[gens1[k].genes[2]]>>]
                 two_pairs == [k \in 1..Len(gens2) |->
                                 <<g.group[gens2[k].genes[1]], g.group[gens2[k].genes[2]]>>]
                 contiguity == compare_pairs(one_pairs, two_pairs)
             IN  [status |-> "ok", group |-> g.group, homology |-> homology,
                  contiguity |-> contiguity, score |-> homology + i * contiguity]

\* Globaligner.synteny(one, two, i); i is the weight in hundredths.  Returns
\* the score (or the exception) and the Gene._group fields after the call.
synteny(s, grp, one, two, i) ==
    LET a == get_alignment(s, one, two)
    IN  IF a.status # "ok"
        THEN [status |-> a.status, group |-> grp]
        ELSE LET links == a.alignment.links
                 homology == SumSeq([k \in 1..Len(links) |-> links[k].identity])
                 g == assign_groups(links, grp, DefaultThreshold)
                 one_pairs == get_pairs(one, 0)
                 two_pairs == get_pairs(two, Len(one_pairs))
                 contiguity == compare_pairs(one_pairs, two_pairs)
             IN  [status |-> "ok", group |-> g.group, homology |-> homology,
                  contiguity |-> contiguity, score |-> homology + i * contiguity]

\* the two nested loops of matrix over enumerate(self.clusters); the loop
\* variable i of the outer loop is what the call passes as i=
RECURSIVE matrix_loop(_, _, _, _)
matrix_loop(s, cells, k, m) ==
    IF k > Len(cells) \/ m.status # "ok" THEN m
    ELSE LET i == cells[k][1]
             j == cells[k][2]
             one == s.clusters[i + 1]
             two == s.clusters[j + 1]
         IN  IF i = j
             THEN matrix_loop(s, cells, k + 1, m)
             ELSE LET r == synteny(s, m.group, one, two, 100 * i)
                      call == [one |-> one, two |-> two, i |-> 100 * i]
                  IN  matrix_loop(s, cells, k + 1,
                        IF r.status # "ok"
                        THEN [m EXCEPT !.status = r.status, !.group = r.group,
                                       !.calls = Append(m.calls, call)]
                        ELSE [m EXCEPT !.group = r.group,
                                       !.calls = Append(m.calls, call),
                                       !.matrix[<<i, j>>] = r.score])

SetMax(S) == CHOOSE x \in S : \A y \in S : y <= x

\* Globaligner.matrix(i, normalise, as_distance).  An entry is num/den: den
\* is 100 for a plain score in hundredths and the matrix maximum after
\* normalise (0/0 is nan).
matrix(s, grp, weight, normalise, as_distance) ==
    LET total == Len(s.clusters)
        idx == [k \in 1..total |-> k - 1]
        cells == Product(idx, idx)
        zeros == [c \in Range(cells) |-> 0]
        m == matrix_loop(s, cells, 1,
                 [status |-> "ok", group |-> grp, calls |-> <<>>, matrix |-> zeros])
    IN  IF m.status # "ok" THEN m
        ELSE IF total = 0 /\ (normalise \/ as_distance)
        THEN [m EXCEPT !.status = "ValueError"]
        ELSE LET max1 == IF total = 0 THEN 0 ELSE SetMax({m.matrix[c] : c \in Range(cells)})
                 den == IF normalise THEN max1 ELSE 100
             IN  [m EXCEPT !.matrix =
                    [c \in Range(cells) |->
                        IF as_distance
                        THEN IF c[1] = c[2]
                             THEN [num |-> 0, den |-> 100]
                             ELSE [num |-> max1 - m.matrix[c], den |-> den]
                        ELSE [num |-> m.matrix[c], den |-> den]]]

(***************************************************************************)
(* The store as a state machine.                                           *)
(***************************************************************************)
Cutoffs == {30, 80}
Weights == {50}
MatrixFlags == {<<FALSE, FALSE>>, <<TRUE, TRUE>>}

Store ==
    [clusters |-> clusters, genes |-> genes, loci |-> loci, alignments |-> alignments,
     alignment_indices |-> alignment_indices, cluster_names |-> cluster_names]

SetStore(s) ==
    /\ clusters' = s.clusters
    /\ genes' = s.genes
    /\ loci' = s.loci
    /\ alignments' = s.alignments
    /\ alignment_indices' = s.alignment_indices
    /\ cluster_names' = s.cluster_names

storeVars == <<clusters, genes, loci, alignments, alignment_indices, cluster_names>>

EmptyStore ==
    /\ clusters = Globaligner.clusters
    /\ genes = Globaligner.genes
    /\ loci = Globaligner.loci
    /\ alignments = Globaligner.alignments
    /\ alignment_indices = Globaligner.alignment_indices
    /\ cluster_names = Globaligner.cluster_names

Init ==
    /\ EmptyStore
    /\ alignment_id_iter = 0
    /\ link_id_iter = 0
    /\ group = [g \in GeneUids |-> NoGroup]
    /\ arg = [op |-> "none"]
    /\ ret = [op |-> "init"]
    /\ added = EmptyDict

\* add_clusters(cluster)
AddClusters(c) ==
    /\ SetStore(add_clusters(Store, <<c>>))
    /\ ret' = [op |-> "add_clusters"]
    /\ UNCHANGED <<alignment_id_iter, link_id_iter, group, arg, added>>

\* add_alignment(alignment) for an Alignment the caller has just built with
\* align_clusters(q, t, cutoff)
AddAlignment(q, t, cutoff) ==
    /\ alignment_id_iter < MaxAlignmentIds
    /\ LET a == align_clusters(q, t, cutoff, alignment_id_iter, link_id_iter)
       IN  /\ SetStore(add_alignment(Store, a.alignment))
           /\ alignment_id_iter' = a.alignment_id_iter
           /\ link_id_iter' = a.link_id_iter
           /\ added' = Put(added, {q, t}, a.alignment.uid)
           /\ ret' = [op |-> "add_alignment", uid |-> a.alignment.uid]
    /\ UNCHANGED <<group, arg>>

\* align_stored_clusters(cutoff)
AlignStoredClusters(cutoff) ==
    LET st == align_stored_clusters(
                  [s |-> Store, alignment_id_iter |-> alignment_id_iter,
                   link_id_iter |-> link_id_iter, added |-> added], cutoff)
    IN  /\ st.alignment_id_iter <= MaxAlignmentIds
        /\ SetStore(st.s)
        /\ alignment_id_iter' = st.alignment_id_iter
        /\ link_id_iter' = st.link_id_iter
        /\ added' = st.added
        /\ ret' = [op |-> "align_stored_clusters"]
        /\ UNCHANGED <<group, arg>>

\* Globaligner.from_dict(self.to_dict())
FromDict ==
    LET r == from_dict(to_dict(Store), alignment_id_iter, link_id_iter)
    IN  /\ r.alignment_id_iter <= MaxAlignmentIds
        /\ alignment_id_iter' = r.alignment_id_iter
        /\ link_id_iter' = r.link_id_iter
        /\ ret' = IF r.status = "ok"
                  THEN [op |-> "from_dict", status |-> "ok", ga |-> r.ga]
                  ELSE [op |-> "from_dict", status |-> r.status]
        /\ UNCHANGED <<storeVars, group, arg, added>>

\* synteny(one, two, i)
Synteny(one, two, i) ==
    LET r == synteny(Store, group, one, two, i)
    IN  /\ group' = r.group
        /\ ret' = IF r.status = "ok"
                  THEN [op |-> "synteny", status |-> "ok", one |-> one, two |-> two,
                        i |-> i, homology |-> r.homology, contiguity |-> r.contiguity,
                        score |-> r.score]
                  ELSE [op |-> "synteny", status |-> r.status]
        /\ UNCHANGED <<storeVars, alignment_id_iter, link_id_iter, arg, added>>

\* matrix(i, normalise, as_distance)
Matrix(i, normalise, as_distance) ==
    LET r == matrix(Store, group, i, normalise, as_distance)
    IN  /\ group' = r.group
        /\ ret' = [op |-> "matrix", status |-> r.status, i |-> i,
                   normalise |-> normalise, as_distance |-> as_distance,
                   calls |-> r.calls, matrix |-> r.matrix]
        /\ UNCHANGED <<storeVars, alignment_id_iter, link_id_iter, arg, added>>

\* the cluster pairs whose alignments callers hand to add_alignment: one
\* pair of clusters with genes and one pair of clusters without loci
AlignedPairs == {<<"c1", "c2">>, <<"c2", "c1">>, <<"c3", "c4">>, <<"c4", "c3">>}

Next ==
    \/ \E c \in ClusterUids : AddClusters(c)
    \/ \E p \in AlignedPairs, cutoff \in Cutoffs : AddAlignment(p[1], p[2], cutoff)
    \/ \E cutoff \in Cutoffs : AlignStoredClusters(cutoff)
    \/ FromDict

Spec == Init /\ [][Next]_vars

\* scoring on stores filled by add_alignment
\* c5 is a third cluster with genes: one locus holding the gene E
ScoredClusters == {"c1", "c2", "c5"}
ScoredPairs == {<<"c1", "c2">>, <<"c1", "c5">>, <<"c2", "c5">>}

NextSynteny ==
    \/ \E p \in ScoredPairs, cutoff \in Cutoffs : AddAlignment(p[1], p[2], cutoff)
    \/ \E one, two \in ScoredClusters, i \in Weights : Synteny(one, two, i)
    \/ \E i \in Weights, f \in MatrixFlags : Matrix(i, f[1], f[2])

SpecSynteny == Init /\ [][NextSynteny]_vars

(***************************************************************************)
(* compute_identity on its own: every gapped pair of strings of up to      *)
(* MaxColumns columns built from the columns below.                        *)
(***************************************************************************)
ColumnChoices ==
    {<<"M", "M">>, <<"S", "S">>, <<"T", "T">>, <<"K", "K">>,
     <<"-", "T">>, <<"-", "-">>, <<"S", "T">>, <<"K", "M">>}

GappedPairs ==
    UNION {{[one |-> [k \in 1..n |-> cols[k][1]], two |-> [k \in 1..n |-> cols[k][2]]] :
              cols \in [1..n -> ColumnChoices]} : n \in 0..MaxColumns}

InitIdentity ==
    /\ EmptyStore
    /\ alignment_id_iter = 0
    /\ link_id_iter = 0
    /\ group = [g \in GeneUids |-> NoGroup]
    /\ \E p \in GappedPairs : arg = [op |-> "compute_identity", one |-> p.one, two |-> p.two]
    /\ ret = [op |-> "init"]
    /\ added = EmptyDict

ComputeIdentity ==
    /\ arg.op = "compute_identity"
    /\ ret.op = "init"
    /\ ret' = [op |-> "compute_identity"] @@ compute_identity(arg.one, arg.two)
    /\ UNCHANGED <<storeVars, alignment_id_iter, link_id_iter, group, arg, added>>

NextIdentity == ComputeIdentity

SpecIdentity == InitIdentity /\ [][NextIdentity]_vars

(***************************************************************************)
(* assign_groups on its own: every list of up to MaxLinks links between    *)
(* four genes, at the default threshold.                                   *)
(***************************************************************************)
LinkChoices ==
    {[query |-> p[1], target |-> p[2], identity |-> id] :
        p \in {<<"A", "B">>, <<"A", "C">>, <<"A", "D">>,
               <<"B", "C">>, <<"B", "D">>, <<"C", "D">>},
        id \in {25, 50}}

InitGroups ==
    /\ EmptyStore
    /\ alignment_id_iter = 0
    /\ link_id_iter = 0
    /\ group = [g \in GeneUids |-> NoGroup]
    /\ \E n \in 0..MaxLinks : \E links \in [1..n -> LinkChoices] :
          arg = [op |-> "assign_groups", links |-> links]
    /\ ret = [op |-> "init"]
    /\ added = EmptyDict

AssignGroups ==
    /\ arg.op = "assign_groups"
    /\ ret.op = "init"
    /\ LET r == assign_groups(arg.links, group, DefaultThreshold)
       IN  /\ group' = r.group
           /\ ret' = [op |-> "assign_groups", groups |-> r.groups]
    /\ UNCHANGED <<storeVars, alignment_id_iter, link_id_iter, arg, added>>

NextGroups == AssignGroups

SpecGroups == InitGroups /\ [][NextGroups]_vars

(***************************************************************************)
(* Properties.                                                             *)
(***************************************************************************)
\* the unordered cluster-id pair of an Alignment held by the store
PairOf(a) == {a.query, a.target}

\* C1: after any sequence of add_alignment calls the alignments list holds at
\* most one Alignment per unordered cluster-id pair (a second add_alignment
\* for a pair replaces the entry in place and does not lengthen the list).
C1_OnePerPair ==
    \A i, j \in 1..Len(alignments) :
        i # j => PairOf(alignments[i]) # PairOf(alignments[j])

\* the unordered cluster-id pair of a restored Alignment
RestoredPairOf(a) == {a.query.uid, a.target.uid}

\* C2: on g2 = from_dict(g.to_dict()), for every cluster pair (a, b) with a
\* stored alignment in g, get_alignment(a, b) and get_alignment(b, a) both
\* succeed on g2 and return the restored Alignment of clusters a and b.
C2_IndicesRebuilt ==
    (ret.op = "from_dict" /\ ret.status = "ok") =>
        \A a, b \in ClusterUids :
            get_alignment(Store, a, b).status = "ok" =>
                LET ab == get_alignment(ret.ga, a, b)
                    ba == get_alignment(ret.ga, b, a)
                IN  /\ ab.status = "ok"
                    /\ ba.status = "ok"
                    /\ ab.alignment = ba.alignment
                    /\ RestoredPairOf(ab.alignment) = {a, b}

\* C3: from_dict(to_dict(g)) reproduces every alignment and link of g with
\* equal field values: the same alignment uid, query and target cluster uids,
\* the same number and order of links, and for each link the same uid, query
\* and target gene uids, identity and similarity.
C3_RoundTrip ==
    (ret.op = "from_dict" /\ ret.status = "ok") =>
        /\ Len(ret.ga.alignments) = Len(alignments)
        /\ \A k \in 1..Len(alignments) :
              LET old == alignments[k]
                  new == ret.ga.alignments[k]
              IN  /\ new.uid = old.uid
                  /\ new.query.uid = old.query
                  /\ new.target.uid = old.target
                  /\ Len(new.links) = Len(old.links)
                  /\ \A n \in 1..Len(old.links) :
                        /\ new.links[n].uid = old.links[n].uid
                        /\ new.links[n].query.uid = old.links[n].query
                        /\ new.links[n].target.uid = old.links[n].target
                        /\ new.links[n].identity = old.links[n].identity
                        /\ new.links[n].similarity = old.links[n].similarity

\* the Gene instances sitting in the genes sequences of the restored loci
RestoredLocusGenes(ga) ==
    UNION {Range(ga.loci[l].genes) : l \in DOMAIN ga.loci}

\* C4: after from_dict the links of the store are restored, and the query and
\* target of every restored Link are the very Gene instances that sit in a
\* restored Locus and in the gene index under their uid; every restored
\* Alignment's query and target are the Cluster instances of the cluster map.
C4_SharingPreserved ==
    ret.op = "from_dict" =>
        /\ (\E k \in 1..Len(alignments) : Len(alignments[k].links) > 0) =>
              ret.status = "ok"
        /\ ret.status = "ok" =>
              \A k \in 1..Len(ret.ga.alignments) :
                 LET a == ret.ga.alignments[k]
                 IN  /\ a.query = ret.ga.clusters.vals[a.query.uid]
                     /\ a.target = ret.ga.clusters.vals[a.target.uid]
                     /\ \A n \in 1..Len(a.links) :
                           /\ a.links[n].query = ret.ga.genes[a.links[n].query.uid]
                           /\ a.links[n].target = ret.ga.genes[a.links[n].target.uid]
                           /\ a.links[n].query \in RestoredLocusGenes(ret.ga)
                           /\ a.links[n].target \in RestoredLocusGenes(ret.ga)

\* C5: align_stored_clusters stores an alignment only for the stored cluster
\* pairs that lack one: afterwards every unordered pair of stored clusters
\* has exactly one stored alignment, and every entry the list held before
\* the call is still the same Alignment at the same position (so a second
\* call in a row changes nothing).
C5_OnlyMissingPairs ==
    [][ret'.op = "align_stored_clusters" =>
          /\ \A a, b \in Range(clusters') :
                a # b => Cardinality({k \in 1..Len(alignments') :
                                         PairOf(alignments'[k]) = {a, b}}) = 1
          /\ Len(alignments') >= Len(alignments)
          /\ \A k \in 1..Len(alignments) : alignments'[k] = alignments[k]]_vars

\* C6: matrix(weight, normalise=False, as_distance=False) has a zero diagonal
\* and entry [i, j] equal to synteny(cluster_i, cluster_j, weight), every
\* synteny call being made with the caller's weight.
C6_MatrixUsesWeight ==
    (ret.op = "matrix" /\ ret.status = "ok" /\ ~ret.normalise /\ ~ret.as_distance) =>
        /\ \A i, j \in 0..(Len(clusters) - 1) :
              ret.matrix[<<i, j>>] =
                  IF i = j
                  THEN [num |-> 0, den |-> 100]
                  ELSE [num |-> synteny(Store, group, clusters[i + 1], clusters[j + 1],
                                        ret.i).score,
                        den |-> 100]
        /\ \A k \in 1..Len(ret.calls) : ret.calls[k].i = ret.i

ScenarioLinks ==
    <<[query |-> "A", target |-> "B", identity |-> 50],
      [query |-> "C", target |-> "D", identity |-> 50],
      [query |-> "B", target |-> "C", identity |-> 50]>>

\* C7: assign_groups at threshold 0.3 on the links (A-B, 0.5), (C-D, 0.5),
\* (B-C, 0.5) leaves the four genes A, B, C, D with the same group index.
C7_SingleChainedGroup ==
    (ret.op = "assign_groups" /\ arg.links = ScenarioLinks) =>
        /\ group["A"] # NoGroup
        /\ group["A"] = group["B"]
        /\ group["B"] = group["C"]
        /\ group["C"] = group["D"]

\* C8: compute_identity on "MSTK"/"MSTK" gives identity = similarity = 1.0,
\* and on "MS-K"/"MSTK" the gap column is left out of the denominator:
\* matches = 3 over effective length 3, identity = 1.0.
C8_IdentityScenario ==
    ret.op = "compute_identity" =>
        /\ (arg.one = <<"M", "S", "T", "K">> /\ arg.two = <<"M", "S", "T", "K">>) =>
              /\ ret.status = "ok"
              /\ ret.matches = ret.length
              /\ ret.matches + ret.similar = ret.length
        /\ (arg.one = <<"M", "S", "-", "K">> /\ arg.two = <<"M", "S", "T", "K">>) =>
              /\ ret.status = "ok"
              /\ ret.matches = 3
              /\ ret.length = 3

\* C9: after any sequence of add_alignment calls, for every cluster pair an
\* alignment was added for, get_alignment(a, b) and get_alignment(b, a)
\* return the same Alignment, the one most recently added for the pair.
C9_BidirectionalLookup ==
    \A a, b \in ClusterUids :
        {a, b} \in DOMAIN added =>
            LET ab == get_alignment(Store, a, b)
                ba == get_alignment(Store, b, a)
            IN  /\ ab.status = "ok"
                /\ ba.status = "ok"
                /\ ab.alignment = ba.alignment
                /\ ab.alignment.uid = added[{a, b}]

\* an alignment was overwritten in place by one added with query and target
\* swapped, and both lookups return the new one
C9_Witness ==
    /\ ret.op = "add_alignment"
    /\ \E k \in 2..Len(alignments) :
          /\ alignments[k].uid = ret.uid
          /\ alignments[k].uid # str(k - 1)
          /\ added[PairOf(alignments[k])] = ret.uid
          /\ get_alignment(Store, alignments[k].target, alignments[k].query).status = "ok"
          /\ get_alignment(Store, alignments[k].target, alignments[k].query).alignment.uid
                = ret.uid
    /\ Len(alignments) < alignment_id_iter

\* the group-index pairs of adjacent genes of a cluster, read from Gene._group
GroupPairs(cluster) ==
    LET ps == get_pairs(cluster, 0)
    IN  [k \in 1..Len(ps) |-> <<group[ps[k].genes[1]], group[ps[k].genes[2]]>>]

\* C10: synteny(one, two, weight) returns homology + weight * contiguity with
\* homology the sum of the stored alignment's link identities and contiguity
\* the sum, over the ordered group-index pairs occurring in both clusters, of
\* the smaller count; with a common ordered pair and weight > 0 the score
\* exceeds homology.
C10_SyntenyScore ==
    (ret.op = "synteny" /\ ret.status = "ok") =>
        LET links == get_alignment(Store, ret.one, ret.two).alignment.links
            homology == SumSeq([k \in 1..Len(links) |-> links[k].identity])
            contiguity == compare_pairs(GroupPairs(ret.one), GroupPairs(ret.two))
        IN  /\ ret.homology = homology
            /\ ret.score = homology + ret.i * contiguity
            /\ (contiguity >= 1 /\ ret.i > 0) => ret.score > homology

\* Gene._group of every Gene before any synteny call
CleanGroups == [g \in GeneUids |-> NoGroup]

\* the genes that the call's own assign_groups run gives a group index
Grouped(links) ==
    {g \in GeneUids : \E k \in 1..Len(links) :
        links[k].identity >= DefaultThreshold /\ g \in {links[k].query, links[k].target}}

====
